---- MODULE Spec2Model ----
(***************************************************************************)
(* gradex-ingest: ingestion of exam submissions exported from Learn.       *)
(* The model follows src/utils.go (func main, moveFile, removeFile, check, *)
(* CopyFile, copyFileContents).  File names and identifiers are sequences  *)
(* of one-character strings so that the regular expressions and the case   *)
(* conversions of the program are computed, not assumed.                   *)
(***************************************************************************)
EXTENDS Integers, Sequences, FiniteSets, TLC

----------------------------------------------------------------------------
(* Characters and strings                                                  *)

Digits == {"0", "1", "2", "3", "4", "5", "6", "7", "8", "9"}

DigitSeq == <<"0", "1", "2", "3", "4", "5", "6", "7", "8", "9">>

LowerLetters == <<"a", "b", "c", "d", "e", "f", "g", "h", "i", "j", "k", "l", "m",
                  "n", "o", "p", "q", "r", "s", "t", "u", "v", "w", "x", "y", "z">>

UpperLetters == <<"A", "B", "C", "D", "E", "F", "G", "H", "I", "J", "K", "L", "M",
                  "N", "O", "P", "Q", "R", "S", "T", "U", "V", "W", "X", "Y", "Z">>

\* strings.ToUpper, character by character
ToUpper(s) ==
    [k \in 1..Len(s) |->
        IF \E j \in 1..26 : LowerLetters[j] = s[k]
        THEN UpperLetters[CHOOSE j \in 1..26 : LowerLetters[j] = s[k]]
        ELSE s[k]]

\* strings.ToLower, character by character
ToLower(s) ==
    [k \in 1..Len(s) |->
        IF \E j \in 1..26 : UpperLetters[j] = s[k]
        THEN LowerLetters[CHOOSE j \in 1..26 : UpperLetters[j] = s[k]]
        ELSE s[k]]

\* a character outside ASCII, e acute, which UTF-8 encodes in two bytes and
\* strings.ToLower leaves as it is
Wide == "U+00E9"

\* len(m) of a Go string: its bytes in UTF-8, not its characters
RECURSIVE len(_)
len(m) ==
    IF m = <<>> THEN 0
    ELSE (IF Head(m) = Wide THEN 2 ELSE 1) + len(Tail(m))

\* faulty variant of HasPrefix: no string has the prefix
HasPrefix_Never(m, prefix) ==
    FALSE

\* strings.HasPrefix
HasPrefix(m, prefix) ==
    Len(m) >= Len(prefix) /\ SubSeq(m, 1, Len(prefix)) = prefix

\* the nil error
nil == <<>>

\* errors.New(fmt.Sprintf("Wrong length got %d not %d", actualLength, expectedLength))
WrongLength(actualLength, expectedLength) ==
    <<"Wrong length got", actualLength, "not", expectedLength>>

\* checkMatriculation(m): the (bool, error) it returns
checkMatriculation(m) ==
    IF len(m) # 8
    THEN [ok |-> FALSE, err |-> WrongLength(len(m), 8)]
    ELSE IF HasPrefix(ToLower(m), <<"s">>)
    THEN [ok |-> FALSE, err |-> <<"Does not start with s">>]
    ELSE [ok |-> TRUE, err |-> nil]

\* checkExamNumber(m): the (bool, error) it returns
checkExamNumber(m) ==
    IF len(m) # 7
    THEN [ok |-> FALSE, err |-> WrongLength(len(m), 7)]
    ELSE IF HasPrefix(ToLower(m), <<"b">>)
    THEN [ok |-> FALSE, err |-> <<"Does not start with b">>]
    ELSE [ok |-> TRUE, err |-> nil]

\* regexp.MatchString(".txt", name): any character followed by "txt", anywhere
MatchTxt(name) ==
    \E p \in 1..Len(name) :
        /\ p + 3 <= Len(name)
        /\ SubSeq(name, p + 1, p + 3) = <<"t", "x", "t">>

\* the pattern "_(s[0-9]{7})_attempt_" matches name at position p
FindUunAt(name, p) ==
    /\ p + 17 <= Len(name)
    /\ name[p] = "_"
    /\ name[p + 1] = "s"
    /\ \A k \in 2..8 : name[p + k] \in Digits
    /\ SubSeq(name, p + 9, p + 17) = <<"_", "a", "t", "t", "e", "m", "p", "t", "_">>

\* finduun.FindStringSubmatch(name): <<>> (nil) when nothing matches, else
\* <<whole match, group 1>> of the leftmost match
FindStringSubmatch(name) ==
    IF \E p \in 1..Len(name) : FindUunAt(name, p)
    THEN LET p == CHOOSE q \in 1..Len(name) :
                      /\ FindUunAt(name, q)
                      /\ \A r \in 1..(q - 1) : ~FindUunAt(name, r)
         IN  <<SubSeq(name, p, p + 17), SubSeq(name, p + 1, p + 8)>>
    ELSE <<>>

\* value of a sequence of decimal digits
RECURSIVE DigitsValue(_)
DigitsValue(s) ==
    IF s = <<>> THEN 0
    ELSE 10 * DigitsValue(SubSeq(s, 1, Len(s) - 1))
         + (CHOOSE j \in 1..10 : DigitSeq[j] = s[Len(s)]) - 1

\* strconv.Atoi with its error dropped (extratime_int, _ := ...): 0 on anything
\* that is not an optionally signed run of digits
Atoi(s) ==
    LET signed == Len(s) > 0 /\ s[1] \in {"+", "-"}
        body   == IF signed THEN Tail(s) ELSE s
    IN  IF body = <<>> \/ \E k \in 1..Len(body) : body[k] \notin Digits
        THEN 0
        ELSE IF signed /\ s[1] = "-" THEN 0 - DigitsValue(body)
             ELSE DigitsValue(body)

----------------------------------------------------------------------------
(* 64-bit arithmetic of time.Duration (int64 nanoseconds), kept as eight    *)
(* little-endian limbs of eight bits in two's complement.                   *)

\* the int64 with the value of the (32-bit) integer n
Int64(n) ==
    [k \in 1..8 |->
        IF k <= 4 THEN (n \div (256 ^ (k - 1))) % 256
        ELSE IF n < 0 THEN 255 ELSE 0]

\* sum over i+j = k+1 of a[i]*b[j], for the first m terms
RECURSIVE Column(_, _, _, _)
Column(a, b, k, m) ==
    IF m = 0 THEN 0 ELSE a[m] * b[k + 1 - m] + Column(a, b, k, m - 1)

\* the carry out of limb k of the product
RECURSIVE MulCarry(_, _, _)
MulCarry(a, b, k) ==
    IF k = 0 THEN 0 ELSE (Column(a, b, k, k) + MulCarry(a, b, k - 1)) \div 256

\* int64 multiplication: the product modulo 2^64
Mul64(a, b) ==
    [k \in 1..8 |-> (Column(a, b, k, k) + MulCarry(a, b, k - 1)) % 256]

\* lexicographic comparison of limbs k..1, most significant first
RECURSIVE LimbsLess(_, _, _)
LimbsLess(a, b, k) ==
    IF k = 0 THEN FALSE
    ELSE IF a[k] # b[k] THEN a[k] < b[k]
    ELSE LimbsLess(a, b, k - 1)

\* a < b as signed 64-bit integers
Less64(a, b) ==
    LET flip(x) == [x EXCEPT ![8] = (x[8] + 128) % 256]
    IN  LimbsLess(flip(a), flip(b), 8)

\* time.Minute * time.Duration(extratime_int), in nanoseconds, as Go computes it
MinutesDuration(extratime_int) ==
    Mul64(Mul64(Int64(60), Int64(1000000000)), Int64(extratime_int))

\* faulty variant of AfterAdd: the submission is tested for being before the
\* shifted deadline
AfterAdd_Reversed(sub_time, deadline_time, d) ==
    Less64(Mul64(Int64(sub_time - deadline_time), Int64(1000000000)), d)

\* sub_time.After(deadline_time.Add(d)): times are whole seconds, d nanoseconds;
\* Time.Add is exact, so the test is d < (sub_time - deadline_time) * 1e9
AfterAdd(sub_time, deadline_time, d) ==
    Less64(d, Mul64(Int64(sub_time - deadline_time), Int64(1000000000)))

\* the LateSubmission field as main decides it
LateSubmission(sub_time, deadline_time, extratime_int) ==
    IF sub_time > deadline_time
    THEN IF extratime_int > 0
         THEN IF AfterAdd(sub_time, deadline_time, MinutesDuration(extratime_int))
              THEN "LATE" ELSE ""
         ELSE "LATE"
    ELSE ""

----------------------------------------------------------------------------
(* Names of the files and identifiers the runs are explored over            *)

UUN1 == <<"S", "1", "2", "3", "4", "5", "6", "7">>

UUN2 == <<"S", "7", "6", "5", "4", "3", "2", "1">>

UUNs == {UUN1, UUN2}

ExamNo1 == <<"1", "2", "3", "4", "5", "6", "7">>

ExamNo2 == <<"7", "6", "5", "4", "3", "2", "1">>

ExamNumbers == {ExamNo1, ExamNo2}

DotTxt == <<".", "t", "x", "t">>

DotPdf == <<".", "p", "d", "f">>

\* a Learn receipt, e.g. x_s1234567_attempt_.txt
ReceiptNameOf(uun) ==
    <<"x", "_">> \o ToLower(uun) \o <<"_", "a", "t", "t", "e", "m", "p", "t", "_">> \o DotTxt

\* the submitted file a receipt of uun names, e.g. f1234567.pdf
SourceNameOf(uun) == <<"f">> \o Tail(uun) \o DotPdf

\* a text file of the learn folder that is no receipt: notes.txt
NotesName == <<"n", "o", "t", "e", "s">> \o DotTxt

\* raw_uun_path without the folder: strings.ToLower(student_uun)+".pdf"
RawUunName(student_uun) == ToLower(student_uun) \o DotPdf

\* faulty variant of NewPath: every target gets the prefix
NewPath_AlwaysLate(student_examno, late) ==
    <<"L", "A", "T", "E", "-">> \o student_examno \o DotPdf

\* new_path without the folder: LATE-<examno>.pdf when late, else <examno>.pdf
NewPath(student_examno, late) ==
    IF late = "LATE"
    THEN <<"L", "A", "T", "E", "-">> \o student_examno \o DotPdf
    ELSE student_examno \o DotPdf

----------------------------------------------------------------------------
(* Files: a directory is a function from the names it holds to files.  A    *)
(* file has content, a modification time and an inode (hard links share it).*)

\* content of a file that is not a readable Learn receipt
Bytes(b) ==
    [bytes |-> b, ok |-> FALSE, DateSubmitted |-> 0, NumberOfFiles |-> 0,
     FiletypeError |-> "", Filename |-> <<>>, UUN |-> <<>>]

\* content of a Learn receipt as parselearn reads it
ReceiptContent(uun, date, nfiles, fterr) ==
    [bytes |-> "receipt", ok |-> TRUE, DateSubmitted |-> date, NumberOfFiles |-> nfiles,
     FiletypeError |-> fterr, Filename |-> SourceNameOf(uun), UUN |-> uun]

File(content, mtime, ino) == [content |-> content, mtime |-> mtime, ino |-> ino]

EmptyDir == [n \in {} |-> File(Bytes(""), 0, 0)]

Exists(dir, name) == name \in DOMAIN dir

\* os.Remove of an existing name: the name goes, other links to the inode stay
Unlink(dir, name) == [n \in DOMAIN dir \ {name} |-> dir[n]]

\* every name of dir that is a link to inode ino gets the content and the time
WriteInode(dir, ino, content, mtime) ==
    [n \in DOMAIN dir |->
        IF dir[n].ino = ino THEN File(content, mtime, ino) ELSE dir[n]]

\* what is left of content when a copy stops part-way
Partial(content) == Bytes("partial")

----------------------------------------------------------------------------
(* File operations.  Each returns the set of outcomes the operating system  *)
(* can produce; mayFail says whether an I/O failure may be injected.        *)

\* removeFile: os.Remove, then check(err), which panics
removeFile(dir, path, mayFail) ==
    IF ~Exists(dir, path)
    THEN {[dir |-> dir, panic |-> TRUE, fault |-> 0]}
    ELSE {[dir |-> Unlink(dir, path), panic |-> FALSE, fault |-> 0]}
         \cup (IF mayFail THEN {[dir |-> dir, panic |-> TRUE, fault |-> 1]} ELSE {})

\* the two directories after os.Create(dst) and a write of content to it:
\* an existing dst keeps its inode (and every link to it sees the write)
Written(learn, out, dst, content, clk) ==
    IF Exists(out, dst)
    THEN [learn |-> WriteInode(learn, out[dst].ino, content, clk),
          out   |-> WriteInode(out, out[dst].ino, content, clk)]
    ELSE [learn |-> learn,
          out   |-> (dst :> File(content, clk, clk)) @@ out]

\* copyFileContents: open src, create dst, io.Copy, Sync, Close
copyFileContents(learn, out, src, dst, clk, mayFail) ==
    LET full == Written(learn, out, dst, learn[src].content, clk)
        part == Written(learn, out, dst, Partial(learn[src].content), clk)
    IN  {[learn |-> full.learn, out |-> full.out, err |-> FALSE, clk |-> clk + 1, fault |-> 0]}
        \cup
        (IF mayFail
         THEN { \* os.Open or os.Create fails: dst is not touched
                [learn |-> learn, out |-> out, err |-> TRUE, clk |-> clk, fault |-> 1],
                \* io.Copy fails after os.Create
                [learn |-> part.learn, out |-> part.out, err |-> TRUE, clk |-> clk + 1, fault |-> 1],
                \* out.Sync or out.Close fails after a complete io.Copy
                [learn |-> full.learn, out |-> full.out, err |-> TRUE, clk |-> clk + 1, fault |-> 1] }
         ELSE {})

\* CopyFile: same file: nothing to do; else hard link; else copy the contents
CopyFile(learn, out, src, dst, clk, sameVol, mayFail) ==
    IF ~Exists(learn, src)
    THEN {[learn |-> learn, out |-> out, err |-> TRUE, clk |-> clk, fault |-> 0]}
    ELSE IF Exists(out, dst) /\ out[dst].ino = learn[src].ino
    THEN {[learn |-> learn, out |-> out, err |-> FALSE, clk |-> clk, fault |-> 0]}
    ELSE IF ~Exists(out, dst) /\ sameVol
    THEN {[learn |-> learn, out |-> (dst :> learn[src]) @@ out,
           err |-> FALSE, clk |-> clk, fault |-> 0]}
    ELSE copyFileContents(learn, out, src, dst, clk, mayFail)

\* faulty variant of TargetIsNewer: the comparison of the two times reversed
TargetIsNewer_Reversed(learn, out, path_from, path_to) ==
    /\ Exists(out, path_to)
    /\ out[path_to].mtime < learn[path_from].mtime

\* time_to.After(time_from) for an existing path_to
TargetIsNewer(learn, out, path_from, path_to) ==
    /\ Exists(out, path_to)
    /\ out[path_to].mtime > learn[path_from].mtime

\* the status moveFile returns after a copy without error
CopiedStatus(file_to_exists) ==
    IF file_to_exists THEN "File replaced" ELSE "File created"

\* moveFile(path_from, path_to); status "panic" stands for check(err) panicking
moveFile(learn, out, path_from, path_to, clk, sameVol, mayFail) ==
    IF ~Exists(learn, path_from)
    THEN {[learn |-> learn, out |-> out, clk |-> clk, status |-> "panic", fault |-> 0]}
    ELSE IF TargetIsNewer(learn, out, path_from, path_to)
    THEN {[learn |-> r.dir, out |-> out, clk |-> clk,
           status |-> IF r.panic THEN "panic" ELSE "File already exists",
           fault |-> r.fault] : r \in removeFile(learn, path_from, mayFail)}
    ELSE UNION {
           IF c.err
           THEN {[learn |-> c.learn, out |-> c.out, clk |-> c.clk,
                  status |-> "Done Nothing", fault |-> c.fault]}
           ELSE {[learn |-> r.dir, out |-> c.out, clk |-> c.clk,
                  status |-> IF r.panic THEN "panic"
                             ELSE CopiedStatus(Exists(out, path_to)),
                  fault |-> r.fault]
                   : r \in removeFile(c.learn, path_from, mayFail)}
           : c \in CopyFile(learn, out, path_from, path_to, clk, sameVol, mayFail)}

\* faulty variant of ContainsFile: every status lets the receipt be removed
ContainsFile_Always(filemovestatus) ==
    TRUE

\* strings.Contains(filemovestatus, "File")
ContainsFile(filemovestatus) ==
    filemovestatus \in {"File created", "File replaced", "File already exists"}

----------------------------------------------------------------------------
(* Bounds and input sets                                                    *)

\* rows of the class list
MaxRows == 2

\* I/O failures (a copy or a removal failing) injected over all runs
MaxFaults == 1

\* -deadline values: 16:00 and 16:30 of 2020-04-22, in seconds from 16:00, or a
\* string time.Parse rejects
DeadlineFlags ==
    {[valid |-> TRUE, time |-> 0], [valid |-> TRUE, time |-> 1800],
     [valid |-> FALSE, time |-> 0]}

\* DateSubmitted of the receipts, seconds from 2020-04-22 16:00
SubmissionTimes == {1200}

\* the "Minutes of Extra Time Allowed" column
ExtraTimes == {<<"0">>}

Rows == [uun : UUNs, examno : ExamNumbers, extratime : ExtraTimes]

ClassLists == UNION {[1..n -> Rows] : n \in 0..MaxRows}

\* the files of one student in the learn folder: nothing; a receipt that cannot
\* be read, or declares two files, or a wrong file type, beside the file it names;
\* a fine receipt whose file is missing; a fine receipt and its file; and a manual
\* uun.pdf, beside nothing or beside a fine receipt and its file
StudentFiles(uun, k, dates) ==
    LET rname    == ReceiptNameOf(uun)
        source   == SourceNameOf(uun) :> File(Bytes("submission"), k, 3 * k)
        manual   == RawUunName(uun) :> File(Bytes("manual"), 3, 3 * k + 2)
        receipt(content) == rname :> File(content, k, 3 * k + 1)
    IN  {EmptyDir, manual, receipt(Bytes("garbage")) @@ source}
        \cup {receipt(ReceiptContent(uun, t, 1, "")) @@ rest
                : t \in dates, rest \in {EmptyDir, source, source @@ manual}}
        \cup {receipt(ReceiptContent(uun, t, 2, "")) @@ source : t \in dates}
        \cup {receipt(ReceiptContent(uun, t, 1, "filetype")) @@ source : t \in dates}

\* the learn folder before the first run
LearnDirs(dates) ==
    {a @@ b @@ n : a \in StudentFiles(UUN1, 1, dates),
                   b \in StudentFiles(UUN2, 2, dates),
                   n \in {EmptyDir, NotesName :> File(Bytes("notes"), 1, 1)}}

----------------------------------------------------------------------------
VARIABLES
    pc,               \* where main is or stopped: "start", "walk", "open", "rows", "done"
    exit,             \* "running", "ok" (os.Exit(0)), "fatal" (exit 1), "panic"
    deadlineFlag,     \* the -deadline argument every run is given
    deadline_time,    \* the parsed -deadline flag
    classList,        \* the rows of the class list csv, in file order
    sameVolume,       \* learnDir and outputDir are on one volume (os.Link works)
    learnDir,         \* the learn folder
    outDir,           \* the output folder
    learn_files,      \* map of UUN to receipt file name
    i,                \* the row classlistcsv.Read returns next
    submissions,      \* the table of successes
    bad_submissions,  \* the table of bad submissions
    reports,          \* the csv reports written by this run
    log,              \* what each row of this run saw and did
    clock,            \* the time a file written now is stamped with
    faults,           \* I/O failures injected so far
    prev,             \* the previous such run: how it ended, with what deadline and output
    edited,           \* the learn folder was edited by hand since that run
    call,             \* a helper called on its own, outside a run: its name and arguments
    ret               \* what that call returned

vars == <<pc, exit, deadlineFlag, deadline_time, classList, sameVolume, learnDir, outDir,
          learn_files, i, submissions, bad_submissions, reports, log, clock,
          faults, prev, edited, call, ret>>

\* the variables of a run of the command
mainVars == <<pc, exit, deadlineFlag, deadline_time, classList, sameVolume, learnDir,
              outDir, learn_files, i, submissions, bad_submissions, reports, log,
              clock, faults, prev, edited>>

\* no helper is called on its own
NoCall == [fn |-> "none"]

\* the call has not returned
NoRet == [done |-> FALSE]

NoPrev == [ran |-> FALSE, ok |-> FALSE, out |-> EmptyDir]

EmptyMap == [u \in {} |-> <<>>]

InitWith(lists, dirs) ==
    /\ pc = "start"
    /\ exit = "running"
    /\ deadlineFlag \in DeadlineFlags
    /\ deadline_time = 0
    /\ classList \in lists
    /\ sameVolume \in BOOLEAN
    /\ learnDir \in dirs
    /\ outDir = EmptyDir
    /\ learn_files = EmptyMap
    /\ i = 1
    /\ submissions = <<>>
    /\ bad_submissions = <<>>
    /\ reports = <<>>
    /\ log = <<>>
    /\ clock = 10
    /\ faults = 0
    /\ prev = NoPrev
    /\ edited = FALSE

\* the command is run; no helper is called on its own
NotCalled == call = NoCall /\ ret = NoRet

Init == InitWith(ClassLists, LearnDirs(SubmissionTimes)) /\ NotCalled

\* The lateness rule is explored over more timestamps and allowances: one student
\* with a fine receipt and its file.  153722867 is the largest number of minutes
\* whose nanoseconds fit an int64.
LateTimes == {-60, 0, 1, 300, 1200, 1800, 1801, 2400}

LateExtraTimes ==
    {<<>>, <<"0">>, <<"1">>, <<"3", "0">>,
     <<"1", "5", "3", "7", "2", "2", "8", "6", "7">>,
     <<"1", "5", "3", "7", "2", "2", "8", "6", "8">>}

LateClassLists ==
    {<<[uun |-> UUN1, examno |-> ExamNo1, extratime |-> x]>> : x \in LateExtraTimes}

LateLearnDirs ==
    {(ReceiptNameOf(UUN1) :> File(ReceiptContent(UUN1, t, 1, ""), 1, 4))
       @@ (SourceNameOf(UUN1) :> File(Bytes("submission"), 1, 3)) : t \in LateTimes}

InitLate == InitWith(LateClassLists, LateLearnDirs) /\ NotCalled

\* The matching of class-list rows is explored over one student whose UUN the
\* class list writes in upper or in lower case, with and without extra time, and
\* receipts submitted 20 and 40 minutes after 16:00.
CaseTimes == {1200, 2400}

CaseExtraTimes == {<<"0">>, <<"3", "0">>}

CaseRows == [uun : {UUN1, ToLower(UUN1)}, examno : {ExamNo1}, extratime : CaseExtraTimes]

CaseClassLists == [1..1 -> CaseRows] \cup [1..2 -> CaseRows]

CaseLearnDirs == StudentFiles(UUN1, 1, CaseTimes)

InitCase == InitWith(CaseClassLists, CaseLearnDirs) /\ NotCalled

----------------------------------------------------------------------------
(* main                                                                     *)

\* parselearn.ParseLearnReceipt(learnDir+"/"+learn_file): an error when the file
\* cannot be opened or is no receipt
ParseLearnReceipt(dir, learn_file) ==
    IF Exists(dir, learn_file) /\ dir[learn_file].content.ok
    THEN [err |-> FALSE, submission |-> dir[learn_file].content]
    ELSE [err |-> TRUE, submission |-> Bytes("")]

\* faulty variant of OnePdf: the filetype error is not looked at
OnePdf_IgnoresFiletype(submission) ==
    submission.NumberOfFiles = 1

\* the test that lets a parsed submission be moved into place
OnePdf(submission) ==
    submission.NumberOfFiles = 1 /\ submission.FiletypeError = ""

\* the names of the learn folder the Walk callback reads as receipts
TxtFiles(dir) == {n \in DOMAIN dir : MatchTxt(n)}

\* the index after filepath.Walk: strings.ToUpper(extracted_uun) -> f.Name()
\* (the names explored give each UUN at most one receipt)
LearnFilesOf(dir) ==
    LET keyed == {n \in TxtFiles(dir) : FindStringSubmatch(n) # <<>>}
        keys  == {ToUpper(FindStringSubmatch(n)[2]) : n \in keyed}
    IN  [u \in keys |-> CHOOSE n \in keyed : ToUpper(FindStringSubmatch(n)[2]) = u]

\* a row of the success or error table (a parselearn.Submission)
SubmissionRow(uun, examno, extratime_int, late, filename, nfiles, fterr, outputfile) ==
    [UUN |-> uun, ExamNumber |-> examno, ExtraTime |-> extratime_int,
     LateSubmission |-> late, Filename |-> filename, NumberOfFiles |-> nfiles,
     FiletypeError |-> fterr, OutputFile |-> outputfile]

\* what a row of the class list saw (indexed: its UUN is a key of learn_files;
\* parsed: the receipt was read without error, with what it declares; rawExists:
\* os.Stat found uun.pdf) and what it did (the moveFile call and its status)
LogEntry(row, indexed, parsed, s, rawExists, late, from, to, srcBefore, tgtBefore) ==
    [uun |-> row.uun, examno |-> row.examno, extratime |-> Atoi(row.extratime),
     deadline |-> deadline_time, indexed |-> indexed, parsed |-> parsed,
     NumberOfFiles |-> s.NumberOfFiles, FiletypeError |-> s.FiletypeError,
     sub_time |-> s.DateSubmitted, rawExists |-> rawExists, late |-> late,
     from |-> from, to |-> to, srcBefore |-> srcBefore, tgtBefore |-> tgtBefore,
     status |-> ""]

\* faulty variant of AppendSuccess: the row is not recorded
AppendSuccess_Forgets(table, submission, filemovestatus) ==
    table

\* submissions = append(submissions, submission) with OutputFile = filemovestatus
AppendSuccess(table, submission, filemovestatus) ==
    Append(table, [submission EXCEPT !.OutputFile = filemovestatus])

\* bad_submissions = append(bad_submissions, submission)
AppendBad(table, submission) == Append(table, submission)

\* faulty variant of InIndex: the index is never consulted
InIndex_Never(index, student_uun) ==
    FALSE

\* learn_file, ok := learn_files[student_uun]: the key is looked up as written
InIndex(index, student_uun) ==
    student_uun \in DOMAIN index

\* <<file>> when dir holds name, else <<>>
Look(dir, name) == IF Exists(dir, name) THEN <<dir[name]>> ELSE <<>>

\* flag.Parse, time.Parse of -deadline with check(e), ensureDir of both folders
Startup ==
    /\ pc = "start" /\ exit = "running"
    /\ \E dirsOk \in BOOLEAN :
          IF ~deadlineFlag.valid
          THEN /\ exit' = "panic"
               /\ UNCHANGED <<pc, deadline_time>>
          ELSE IF ~dirsOk
          THEN /\ exit' = "fatal"
               /\ deadline_time' = deadlineFlag.time
               /\ UNCHANGED pc
          ELSE /\ pc' = "walk"
               /\ deadline_time' = deadlineFlag.time
               /\ UNCHANGED exit
    /\ UNCHANGED <<deadlineFlag, classList, sameVolume, learnDir, outDir, learn_files, i, submissions,
                   bad_submissions, reports, log, clock, faults, prev, edited>>
    /\ UNCHANGED <<call, ret>>

\* filepath.Walk(learnDir, ...): FindStringSubmatch(f.Name())[1] panics (index out
\* of range) on a .txt name the pattern does not match; then os.Open(classList),
\* with log.Fatalln when it fails
WalkLearnDir ==
    /\ pc = "walk" /\ exit = "running"
    /\ IF \E n \in TxtFiles(learnDir) : FindStringSubmatch(n) = <<>>
       THEN /\ exit' = "panic"
            /\ UNCHANGED <<pc, learn_files>>
       ELSE /\ learn_files' = LearnFilesOf(learnDir)
            /\ \E opened \in BOOLEAN :
                  IF opened
                  THEN pc' = "rows" /\ UNCHANGED exit
                  ELSE pc' = "open" /\ exit' = "fatal"
    /\ UNCHANGED <<deadlineFlag, deadline_time, classList, sameVolume, learnDir, outDir, i,
                   submissions, bad_submissions, reports, log, clock, faults, prev, edited>>
    /\ UNCHANGED <<call, ret>>

\* the rest of a row once moveFile returned m: the receipt (if any) is removed
\* when the status contains "File", and the row joins the table of successes
AfterMove(m, receipt, sub, entry) ==
    IF m.status = "panic"
    THEN /\ exit' = "panic"
         /\ learnDir' = m.learn
         /\ faults' = faults + m.fault
         /\ log' = Append(log, [entry EXCEPT !.status = "panic"])
         /\ UNCHANGED <<i, submissions>>
    ELSE \E r \in (IF receipt # <<>> /\ ContainsFile(m.status)
                   THEN removeFile(m.learn, receipt[1], faults + m.fault < MaxFaults)
                   ELSE {[dir |-> m.learn, panic |-> FALSE, fault |-> 0]}) :
           /\ learnDir' = r.dir
           /\ faults' = faults + m.fault + r.fault
           /\ IF r.panic
              THEN /\ exit' = "panic"
                   /\ log' = Append(log, [entry EXCEPT !.status = "panic"])
                   /\ UNCHANGED <<i, submissions>>
              ELSE /\ submissions' = AppendSuccess(submissions, sub, m.status)
                   /\ log' = Append(log, [entry EXCEPT !.status = m.status])
                   /\ i' = i + 1
                   /\ UNCHANGED exit

\* one pass of the loop over the class list: the row classlistcsv.Read returns
ProcessRow ==
    /\ pc = "rows" /\ exit = "running"
    /\ i <= Len(classList)
    /\ LET row            == classList[i]
           student_uun    == row.uun
           student_examno == row.examno
           extratime_int  == Atoi(row.extratime)
       IN  IF InIndex(learn_files, student_uun)
           THEN LET learn_file == learn_files[student_uun]
                    parsed     == ParseLearnReceipt(learnDir, learn_file)
                    s          == parsed.submission
                    late       == LateSubmission(s.DateSubmitted, deadline_time, extratime_int)
                    sub        == SubmissionRow(s.UUN, student_examno, extratime_int, late,
                                                s.Filename, s.NumberOfFiles, s.FiletypeError, "")
                    new_path   == NewPath(student_examno, late)
                IN  IF parsed.err
                    THEN /\ log' = Append(log, LogEntry(row, TRUE, FALSE, s, FALSE, "",
                                                        <<>>, <<>>, <<>>, <<>>))
                         /\ i' = i + 1
                         /\ UNCHANGED <<exit, learnDir, outDir, submissions, bad_submissions,
                                        clock, faults>>
                    ELSE IF OnePdf(s)
                    THEN \E m \in moveFile(learnDir, outDir, s.Filename, new_path, clock,
                                           sameVolume, faults < MaxFaults) :
                            /\ outDir' = m.out
                            /\ clock' = m.clk
                            /\ AfterMove(m, <<learn_file>>, sub,
                                         LogEntry(row, TRUE, TRUE, s, FALSE, late,
                                                  s.Filename, new_path,
                                                  Look(learnDir, s.Filename),
                                                  Look(outDir, new_path)))
                            /\ UNCHANGED bad_submissions
                    ELSE /\ bad_submissions' = AppendBad(bad_submissions, sub)
                         /\ log' = Append(log, LogEntry(row, TRUE, TRUE, s, FALSE, late,
                                                        <<>>, <<>>, <<>>, <<>>))
                         /\ i' = i + 1
                         /\ UNCHANGED <<exit, learnDir, outDir, submissions, clock, faults>>
           ELSE LET raw_uun_path == RawUunName(student_uun)
                    to           == NewPath(student_examno, "")
                    manual_sub   == SubmissionRow(student_uun, student_examno, 0, "",
                                                  <<>>, 0, "", "")
                IN  IF Exists(learnDir, raw_uun_path)
                    THEN \E m \in moveFile(learnDir, outDir, raw_uun_path, to, clock,
                                           sameVolume, faults < MaxFaults) :
                            /\ outDir' = m.out
                            /\ clock' = m.clk
                            /\ AfterMove(m, <<>>, manual_sub,
                                         LogEntry(row, FALSE, FALSE, Bytes(""), TRUE, "",
                                                  raw_uun_path, to,
                                                  Look(learnDir, raw_uun_path),
                                                  Look(outDir, to)))
                            /\ UNCHANGED bad_submissions
                    ELSE /\ log' = Append(log, LogEntry(row, FALSE, FALSE, Bytes(""), FALSE, "",
                                                        <<>>, <<>>, <<>>, <<>>))
                         /\ i' = i + 1
                         /\ UNCHANGED <<exit, learnDir, outDir, submissions, bad_submissions,
                                        clock, faults>>
    /\ UNCHANGED <<pc, deadlineFlag, deadline_time, classList, sameVolume, learn_files,
                   reports, prev, edited>>
    /\ UNCHANGED <<call, ret>>

\* io.EOF ends the loop; both tables go to parselearn.WriteSubmissionsToCSV; os.Exit(0)
WriteReports ==
    /\ pc = "rows" /\ exit = "running"
    /\ i > Len(classList)
    /\ reports' = <<[name |-> "learn-success.csv", rows |-> submissions],
                    [name |-> "learn-errors.csv", rows |-> bad_submissions]>>
    /\ pc' = "done"
    /\ exit' = "ok"
    /\ UNCHANGED <<deadlineFlag, deadline_time, classList, sameVolume, learnDir, outDir, learn_files, i,
                   submissions, bad_submissions, log, clock, faults, prev, edited>>
    /\ UNCHANGED <<call, ret>>

----------------------------------------------------------------------------
(* Between runs                                                             *)

\* the command is run again on the same class list and folders
RunAgain ==
    /\ exit # "running"
    /\ pc' = "start"
    /\ exit' = "running"
    /\ deadline_time' = 0
    /\ learn_files' = EmptyMap
    /\ i' = 1
    /\ submissions' = <<>>
    /\ bad_submissions' = <<>>
    /\ reports' = <<>>
    /\ log' = <<>>
    /\ IF pc \in {"rows", "done"}
       THEN /\ prev' = [ran |-> TRUE, ok |-> exit = "ok", out |-> outDir]
            /\ edited' = FALSE
       ELSE UNCHANGED <<prev, edited>>
    /\ UNCHANGED <<deadlineFlag, classList, sameVolume, learnDir, outDir, clock, faults>>
    /\ UNCHANGED <<call, ret>>

\* workflow step 2: the Learn files of a submission left in the learn folder are
\* replaced by hand with a single file uun.pdf
ManualReplace ==
    /\ pc = "start" /\ exit = "running" /\ prev.ran
    /\ \E uun \in UUNs :
          /\ Exists(learnDir, ReceiptNameOf(uun))
          /\ learnDir' = (RawUunName(uun) :> File(Bytes("manual"), clock, clock))
                         @@ Unlink(Unlink(learnDir, ReceiptNameOf(uun)), SourceNameOf(uun))
    /\ clock' = clock + 1
    /\ edited' = TRUE
    /\ UNCHANGED <<pc, exit, deadlineFlag, deadline_time, classList, sameVolume, outDir,
                   learn_files, i,
                   submissions, bad_submissions, reports, log, faults, prev>>
    /\ UNCHANGED <<call, ret>>

Next ==
    \/ Startup
    \/ WalkLearnDir
    \/ ProcessRow
    \/ WriteReports
    \/ RunAgain
    \/ ManualReplace

Spec == Init /\ [][Next]_vars

SpecLate == InitLate /\ [][Next]_vars

SpecCase == InitCase /\ [][Next]_vars

----------------------------------------------------------------------------
(* The decision on lateness on its own                                      *)

\* no run of the command is going on
Idle ==
    /\ InitWith({<<>>}, {EmptyDir})
    /\ deadlineFlag = [valid |-> TRUE, time |-> 0]
    /\ sameVolume = FALSE

\* submission times in seconds from 2020-04-22 16:00, up to some 68 years later
MonoTimes == {-60, 0, 1, 60, 61, 1800, 1801, 1860, 1861, 2147480000}

\* minutes of extra time whose nanoseconds fit an int64: 153722867 is the largest
MonoMinutes == {-5, 0, 1, 30, 31, 35791394, 153722867}

\* a decision to take, with a later submission time and a larger allowance to
\* compare it with
LatenessCalls ==
    {[fn |-> "LateSubmission", deadline_time |-> d, sub_time |-> t, later |-> t2,
      extratime_int |-> e, more |-> e2] :
        d \in {0, 1800},
        t \in MonoTimes, t2 \in MonoTimes,
        e \in MonoMinutes, e2 \in MonoMinutes}

InitMono ==
    /\ Idle
    /\ call \in {c \in LatenessCalls : c.sub_time <= c.later /\ c.extratime_int <= c.more}
    /\ ret = NoRet

\* utils.go decides on the submission, on the later one and on the one with more
\* extra time
DecideLate ==
    /\ call.fn = "LateSubmission" /\ ~ret.done
    /\ ret' = [done |-> TRUE,
               late |-> LateSubmission(call.sub_time, call.deadline_time,
                                       call.extratime_int),
               lateLater |-> LateSubmission(call.later, call.deadline_time,
                                            call.extratime_int),
               lateWithMore |-> LateSubmission(call.sub_time, call.deadline_time,
                                               call.more)]
    /\ UNCHANGED <<mainVars, call>>

NextMono == DecideLate

SpecMono == InitMono /\ [][NextMono]_vars

----------------------------------------------------------------------------
(* The validation helpers on their own                                      *)

\* the strings explored are a first character, up to MaxOnes times "1", and
\* possibly a last character outside ASCII
MaxOnes == 8

Ones(n) == [k \in 1..n |-> "1"]

ValidationStrings ==
    {head \o Ones(n) \o tail :
        head \in {<<>>, <<"s">>, <<"S">>, <<"b">>, <<"B">>, <<"1">>, <<Wide>>},
        n \in 0..MaxOnes,
        tail \in {<<>>, <<Wide>>}}

InitValidate ==
    /\ Idle
    /\ call \in [fn : {"checkMatriculation", "checkExamNumber"}, m : ValidationStrings]
    /\ ret = NoRet

CheckMatriculation ==
    /\ call.fn = "checkMatriculation" /\ ~ret.done
    /\ ret' = [done |-> TRUE, ok |-> checkMatriculation(call.m).ok,
               err |-> checkMatriculation(call.m).err]
    /\ UNCHANGED <<mainVars, call>>

CheckExamNumber ==
    /\ call.fn = "checkExamNumber" /\ ~ret.done
    /\ ret' = [done |-> TRUE, ok |-> checkExamNumber(call.m).ok,
               err |-> checkExamNumber(call.m).err]
    /\ UNCHANGED <<mainVars, call>>

NextValidate ==
    \/ CheckMatriculation
    \/ CheckExamNumber

SpecValidate == InitValidate /\ [][NextValidate]_vars

----------------------------------------------------------------------------
(* Properties                                                               *)

\* the last row of this run that was worked on
LastRow == log[Len(log)]

\* a row has just been worked through and main is still in the loop
AfterRow == pc = "rows" /\ exit = "running" /\ Len(log) > 0

\* the loop over the class list ended without a panic
LoopEnded == pc \in {"rows", "done"} /\ exit # "panic" /\ i > Len(classList)

\* the row found a submission: a receipt that parsed, or uun.pdf without a receipt
Resolved(e) == (e.indexed /\ e.parsed) \/ (~e.indexed /\ e.rawExists)

\* moveFile was called for the row
Moved(e) == e.from # <<>>

\* number of rows in the two tables
Outcomes == Len(submissions) + Len(bad_submissions)

C2_NoSharedTargetPath ==
    \A j, k \in 1..Len(log) :
        (j # k /\ Moved(log[j]) /\ Moved(log[k])
            /\ ContainsFile(log[j].status) /\ ContainsFile(log[k].status))
        => log[j].to # log[k].to

\* what the output folder holds: the content under each name
Contents(dir) == [n \in DOMAIN dir |-> dir[n].content]

\* C3: a run that follows a completed run with the same class list, deadline and
\* folders, with no file edited by hand and no I/O failure, ends with the same names
\* in the output folder and the same content under each.
C3_RerunChangesNothing ==
    (exit = "ok" /\ prev.ran /\ prev.ok /\ ~edited /\ faults = 0)
        => Contents(outDir) = Contents(prev.out)

\* C4: once start-up succeeded, no failure on a row aborts the run.
C4_RowFailureNeverAborts ==
    ~(pc = "rows" /\ exit = "panic")

\* t is strictly after d shifted forward by the given minutes (times in seconds):
\* t - d > 60 * minutes, computed without the product
StrictlyAfter(t, d, minutes) == (t - d - 1) \div 60 >= minutes

\* C5: a receipt-backed submission placed with extra time e >= 0 is classified late
\* exactly when its timestamp is strictly after the deadline shifted forward by e
\* minutes, and its target is LATE-<examno>.pdf exactly when it is late, else
\* <examno>.pdf.
C5_LatenessRule ==
    \A k \in 1..Len(log) :
        (log[k].indexed /\ log[k].parsed /\ Moved(log[k]) /\ log[k].extratime >= 0) =>
            LET e    == log[k]
                late == StrictlyAfter(e.sub_time, e.deadline, e.extratime)
            IN  /\ (e.late = "LATE") <=> late
                /\ e.to = IF late THEN NewPath(e.examno, "LATE") ELSE NewPath(e.examno, "")

\* the row's receipt parsed and declares two files or a filetype error
BadRow ==
    /\ pc = "rows" /\ exit = "running" /\ i <= Len(classList)
    /\ classList[i].uun \in DOMAIN learn_files
    /\ LET learn_file == learn_files[classList[i].uun]
       IN  /\ Exists(learnDir, learn_file)
           /\ learnDir[learn_file].content.ok
           /\ \/ learnDir[learn_file].content.NumberOfFiles # 1
              \/ learnDir[learn_file].content.FiletypeError # ""

\* C6: processing a row whose receipt declares a file count other than 1 or a
\* filetype error appends the student to the bad submissions, not to the successes,
\* and leaves the output folder and the learn folder (source and receipt) as they were.
C6_BadSubmissionQuarantined ==
    [][BadRow =>
         /\ Len(bad_submissions') = Len(bad_submissions) + 1
         /\ bad_submissions'[Len(bad_submissions')].ExamNumber = classList[i].examno
         /\ bad_submissions'[Len(bad_submissions')].UUN = classList[i].uun
         /\ SubSeq(bad_submissions', 1, Len(bad_submissions)) = bad_submissions
         /\ submissions' = submissions
         /\ outDir' = outDir
         /\ learnDir' = learnDir]_vars

\* a row with such a receipt was processed: it is in the bad submissions, and its
\* receipt and the file the receipt names are still in the learn folder
C6_Witness ==
    /\ AfterRow
    /\ LastRow.indexed /\ LastRow.parsed
    /\ LastRow.NumberOfFiles # 1 \/ LastRow.FiletypeError # ""
    /\ Len(bad_submissions) > 0
    /\ Exists(learnDir, ReceiptNameOf(LastRow.uun))
    /\ Exists(learnDir, SourceNameOf(LastRow.uun))

\* the cases of a moveFile call, from what the row saw before the call
TargetAbsent(e) == e.tgtBefore = <<>>

TargetNewer(e) == ~TargetAbsent(e) /\ e.tgtBefore[1].mtime > e.srcBefore[1].mtime

SourceNewer(e) == ~TargetAbsent(e) /\ e.srcBefore[1].mtime > e.tgtBefore[1].mtime

\* the target now holds what the source held
TargetHasSource(e) ==
    Exists(outDir, e.to) /\ outDir[e.to].content = e.srcBefore[1].content

\* the receipt of a receipt-backed row is gone
ReceiptGone(e) == e.indexed => ~Exists(learnDir, ReceiptNameOf(e.uun))

\* the receipt of a receipt-backed row is still there
ReceiptKept(e) == e.indexed => Exists(learnDir, ReceiptNameOf(e.uun))

C8_CopyFailureQuarantined ==
    (AfterRow /\ Moved(LastRow) /\ LastRow.status = "Done Nothing") =>
        /\ \A k \in 1..Len(submissions) : submissions[k].OutputFile # "Done Nothing"
        /\ \E k \in 1..Len(bad_submissions) :
               bad_submissions[k].ExamNumber = LastRow.examno
        /\ Exists(learnDir, LastRow.from)
        /\ ReceiptKept(LastRow)

\* no two rows of the class list share an exam number
UniqueExamNumbers ==
    \A j, k \in 1..Len(classList) :
        j # k => classList[j].examno # classList[k].examno

\* C9: over any sequence of runs and manual replacements, the output folder never
\* holds both <examno>.pdf and LATE-<examno>.pdf (stated for class lists whose exam
\* numbers are unique, so that both files are of one student).
C9_NeverBothVariants ==
    UniqueExamNumbers =>
        \A x \in ExamNumbers :
            ~(Exists(outDir, NewPath(x, "")) /\ Exists(outDir, NewPath(x, "LATE")))

\* main is about to work through row i of the class list
AtRow == pc = "rows" /\ exit = "running" /\ i <= Len(classList)

\* C11: working through a row binds at most one artifact to it, the receipt first:
\* when the receipt index has an entry for the row's identifier, the fallback file
\* <identifier lowercased>.pdf is not probed, not the source of the move, and is
\* left in the learn folder as it was, and only the receipt's target path changes
\* in the output folder; when the index has no entry, the only artifact moved is
\* the fallback file.
C11_ReceiptTakesPrecedence ==
    [][AtRow =>
         LET row == classList[i]
             raw == RawUunName(row.uun)
             e   == log'[Len(log')]
         IN  /\ Len(log') = Len(log) + 1
             /\ e.from \in {<<>>, raw} \/ e.indexed
             /\ row.uun \in DOMAIN learn_files =>
                   /\ e.indexed /\ ~e.rawExists
                   /\ e.from # raw
                   /\ Look(learnDir', raw) = Look(learnDir, raw)
                   /\ \A n \in (DOMAIN outDir' \cup DOMAIN outDir) \ {e.to} :
                          Look(outDir', n) = Look(outDir, n)
             /\ row.uun \notin DOMAIN learn_files =>
                   /\ ~e.indexed
                   /\ e.from = IF Exists(learnDir, raw) THEN raw ELSE <<>>]_vars

\* a row with a receipt in the index and a fallback file beside it was placed from
\* the receipt, and the fallback file is still in the learn folder
C11_Witness ==
    /\ AfterRow /\ Moved(LastRow)
    /\ LastRow.indexed
    /\ LastRow.status = "File created"
    /\ LastRow.from = SourceNameOf(LastRow.uun)
    /\ Exists(learnDir, RawUunName(LastRow.uun))
    /\ ~Exists(learnDir, LastRow.from)

\* C12: matching of identifiers ignores letter case: a row whose identifier,
\* upper-cased, is a key of the receipt index is worked through as a row with a
\* receipt, never as a row without one.
C12_MatchIgnoresCase ==
    \A k \in 1..Len(log) :
        ToUpper(log[k].uun) \in DOMAIN learn_files => log[k].indexed

\* the LATE- target of a row
LatePath(row) == NewPath(row.examno, "LATE")

\* a row without an entry in the receipt index whose fallback file exists
FallbackRow ==
    /\ AtRow
    /\ classList[i].uun \notin DOMAIN learn_files
    /\ Exists(learnDir, RawUunName(classList[i].uun))

\* C13: whatever the deadline and the extra time, working through a row with no
\* receipt-index entry whose fallback file exists calls the move with the target
\* <examno>.pdf and an empty late flag and brings no LATE-<examno>.pdf into the
\* output folder; when no I/O failure strikes, <examno>.pdf is in the output folder
\* afterwards and the row is added to the successes with an empty late flag.
C13_ManualFallbackNeverLate ==
    [][FallbackRow =>
         LET row == classList[i]
             e   == log'[Len(log')]
         IN  /\ Len(log') = Len(log) + 1
             /\ e.from = RawUunName(row.uun)
             /\ e.to = row.examno \o DotPdf
             /\ e.late = ""
             /\ Look(outDir', LatePath(row)) = Look(outDir, LatePath(row))
             /\ bad_submissions' = bad_submissions
             /\ faults' = faults =>
                   /\ Exists(outDir', row.examno \o DotPdf)
                   /\ ~Exists(learnDir', RawUunName(row.uun))
                   /\ Len(submissions') = Len(submissions) + 1
                   /\ submissions'[Len(submissions')].UUN = row.uun
                   /\ submissions'[Len(submissions')].ExamNumber = row.examno
                   /\ submissions'[Len(submissions')].LateSubmission = ""
                   /\ ContainsFile(submissions'[Len(submissions')].OutputFile)]_vars

\* a fallback file of a row with extra time was placed as <examno>.pdf in a run
\* with the deadline at 16:00
C13_Witness ==
    /\ AfterRow /\ Moved(LastRow)
    /\ ~LastRow.indexed /\ LastRow.rawExists
    /\ LastRow.extratime = 30
    /\ LastRow.deadline = 0
    /\ LastRow.status = "File created"
    /\ Exists(outDir, LastRow.examno \o DotPdf)
    /\ submissions[Len(submissions)].LateSubmission = ""

\* C14: for allowances whose nanoseconds fit 64 bits, with deadline and submission
\* time fixed, more extra time never turns on-time into late; with deadline and
\* allowance fixed, a later submission time never turns late into on-time.
C14_LatenessMonotone ==
    (call.fn = "LateSubmission" /\ ret.done) =>
        /\ ret.late = "" => ret.lateWithMore = ""
        /\ ret.late = "LATE" => ret.lateLater = "LATE"

\* a submission after the deadline that its extra time makes on-time stays on-time
\* with the largest allowance, and a later one is late
C14_Witness ==
    /\ call.fn = "LateSubmission" /\ ret.done
    /\ call.sub_time > call.deadline_time
    /\ call.extratime_int > 0 /\ call.more > call.extratime_int
    /\ ret.late = "" /\ ret.lateWithMore = ""
    /\ ret.lateLater = "LATE"

\* a validation helper has returned
Validated == call.fn \in {"checkMatriculation", "checkExamNumber"} /\ ret.done

\* the length a helper expects and the letter it refuses as first character
ExpectedOf(fn) == IF fn = "checkMatriculation" THEN 8 ELSE 7

RefusedOf(fn) == IF fn = "checkMatriculation" THEN {"s", "S"} ELSE {"b", "B"}

\* the first character of m is one of the letters
StartsWith(m, letters) == Len(m) > 0 /\ m[1] \in letters

\* the bytes of m in UTF-8
Utf8Bytes(m) == Len(m) + Cardinality({k \in 1..Len(m) : m[k] = Wide})

C15_NoPartialTarget ==
    (AfterRow /\ Moved(LastRow) /\ LastRow.status = "Done Nothing") =>
        /\ TargetAbsent(LastRow) => ~Exists(outDir, LastRow.to)
        /\ ~TargetAbsent(LastRow) =>
              /\ Exists(outDir, LastRow.to)
              /\ outDir[LastRow.to].content = LastRow.tgtBefore[1].content

\* the statuses of a move that let the receipt be removed
FileStatuses == {"File created", "File already exists", "File replaced"}

\* C17: working through a row removes from the learn folder at most the source of
\* the move and its receipt; the source only if a file is at its target path
\* afterwards; the receipt only if the source was removed by a move whose status
\* is "File created", "File already exists" or "File replaced".
C17_NoSubmissionLost ==
    [][AtRow =>
         \A n \in DOMAIN learnDir \ DOMAIN learnDir' :
            LET e == log'[Len(log')]
            IN  /\ Len(log') = Len(log) + 1
                /\ Moved(e)
                /\ \/ /\ n = e.from
                      /\ Exists(outDir', e.to)
                   \/ /\ e.indexed
                      /\ n = learn_files[e.uun]
                      /\ ~Exists(learnDir', e.from)
                      /\ Exists(outDir', e.to)
                      /\ e.status \in FileStatuses]_vars

\* a source older than the file at its target was removed with its receipt, and
\* the file at the target is there
C17_Witness ==
    /\ AfterRow /\ Moved(LastRow)
    /\ LastRow.indexed
    /\ LastRow.status = "File already exists"
    /\ ~Exists(learnDir, LastRow.from)
    /\ ~Exists(learnDir, ReceiptNameOf(LastRow.uun))
    /\ Exists(outDir, LastRow.to)

\* C10: building the receipt index never crashes the run.
C10_WalkNeverCrashes ==
    ~(pc = "walk" /\ exit = "panic")

====
